---- MODULE Spec2Model ----
(***************************************************************************)
(* BufBytes (src/src/lib.rs): a byte iterator that reads its source in     *)
(* chunks into one buffer and walks the buffer with two pointers, buf_ptr  *)
(* (next byte to yield) and buf_ptr_end (last valid byte).                 *)
(*                                                                         *)
(* Pointers are modelled as offsets from the start of the buffer's         *)
(* allocation: the Vec is never resized, so its allocation never moves and *)
(* comparing two pointers into it is comparing their offsets.              *)
(*                                                                         *)
(* The source B: Read is a scripted reader: it holds the bytes it will     *)
(* deliver (data), how far it has delivered (pos), a plan of what its next *)
(* reads answer (an error, 0 bytes, or at most m bytes) and the log of     *)
(* what its reads have answered so far.  When the plan is used up a read   *)
(* delivers as much as is asked for, and 0 bytes once the data is used up. *)
(*                                                                         *)
(* A local value that the code names once and uses several times is bound  *)
(* as x \in {v} under The, which evaluates v once.                         *)
(***************************************************************************)
EXTENDS Integers, Sequences, FiniteSets

\* ---------------------------------------------------------------- bounds
MaxData  == 4      \* longest source data
MaxPlan  == 3      \* longest plan of scripted reads
MaxCap   == 2      \* largest size passed to with_capacity
MaxReads == 5      \* no operation is started once the source has answered this many reads
MaxCalls == 2      \* most next calls of a closure that calls next a fixed number of times

DefaultSize == 8192                 \* lib.rs:28

\* ---------------------------------------------------------------- values
None == << >>
Some(x) == << x >>

ERR == -1                           \* a read that answers Err, in a plan or a log

ZeroSizeFile == [msg |-> "0 size file", at |-> 0]      \* Error::other("0 size file")
IoError(k) == [msg |-> "read error", at |-> k]        \* the error the source's k-th read reported

Min(a, b) == IF a < b THEN a ELSE b
Max(a, b) == IF a < b THEN b ELSE a

\* The({ e(x) : x \in {v} }) is e(v), with v evaluated once.
The(S) == CHOOSE x \in S : TRUE

SeqsUpTo(S, n) == UNION { [1..k -> S] : k \in 0..n }

\* ---------------------------------------------------------------- the buffer (Vec<u8>)
\* vec![0; size]: size bytes, all zero.  A Vec is kept as its length and the bytes
\* up to the highest index written so far (head); every byte beyond head is still
\* the zero it was allocated as.
vec(size) == [len |-> size, head |-> << >>]

OutOfBounds == -2                   \* what a read outside the allocation yields

\* the byte at offset i of v's allocation
at(v, i) ==
    IF i < 0 \/ i >= v.len THEN OutOfBounds
    ELSE IF i + 1 <= Len(v.head) THEN v.head[i + 1] ELSE 0

\* v after bytes (a sequence no longer than v) are copied to its start
fill(v, bytes) ==
    [v EXCEPT !.head = [i \in 1..Max(Len(bytes), Len(@)) |->
                          IF i <= Len(bytes) THEN bytes[i] ELSE @[i]]]

\* ---------------------------------------------------------------- the source (B: Read)
\* What the next read of b answers when asked for len bytes: ERR or a byte count.
read_len(b, len) ==
    LET k == Len(b.log) + 1
        left == Len(b.data) - b.pos
        want == IF k <= Len(b.plan) THEN b.plan[k] ELSE len
    IN  IF want = ERR THEN ERR ELSE Min(Min(want, len), left)

\* base.read(buf): the answer, the buffer after it and the source after it.
read(b, buf) ==
    The({ IF n = ERR
          THEN [ok |-> FALSE, n |-> 0, err |-> IoError(Len(b.log) + 1), buf |-> buf,
                base |-> [b EXCEPT !.log = Append(@, ERR)]]
          ELSE [ok |-> TRUE, n |-> n, err |-> IoError(0),
                buf |-> fill(buf, SubSeq(b.data, b.pos + 1, b.pos + n)),
                base |-> [b EXCEPT !.pos = @ + n, !.log = Append(@, n)]] :
          n \in {read_len(b, buf.len)} })

\* ---------------------------------------------------------------- BufBytes
\* with_capacity(base, size): Ok(Self) or Err(error); base is the source afterwards.
\* with_capacity without the buf_len == 0 test: an empty first read makes an instance.
with_capacity_lenient(base, size) ==
    The({ IF ~r.ok
          THEN [ok |-> FALSE, err |-> r.err, base |-> r.base,
                buf |-> vec(0), buf_ptr |-> 0, buf_ptr_end |-> 0, error |-> None]
          ELSE [ok |-> TRUE, err |-> ZeroSizeFile, base |-> r.base,
                buf |-> r.buf, buf_ptr |-> 0, buf_ptr_end |-> r.n - 1, error |-> None] :
          r \in {read(base, vec(size))} })

\* with_capacity keeping a failed first read in the field error, as refill_buffer does.
with_capacity_stores(base, size) ==
    The({ IF ~r.ok
          THEN [ok |-> TRUE, err |-> ZeroSizeFile, base |-> r.base,
                buf |-> vec(size), buf_ptr |-> 0, buf_ptr_end |-> 0 - 1,
                error |-> Some(r.err)]
          ELSE IF r.n = 0
          THEN [ok |-> FALSE, err |-> ZeroSizeFile, base |-> r.base,
                buf |-> vec(0), buf_ptr |-> 0, buf_ptr_end |-> 0, error |-> None]
          ELSE [ok |-> TRUE, err |-> ZeroSizeFile, base |-> r.base,
                buf |-> r.buf, buf_ptr |-> 0, buf_ptr_end |-> r.n - 1, error |-> None] :
          r \in {read(base, vec(size))} })

\* with_capacity with buf_ptr_end one past the last byte read (buf_ptr.add(buf_len)).
with_capacity_end_past(base, size) ==
    The({ IF ~r.ok
          THEN [ok |-> FALSE, err |-> r.err, base |-> r.base,
                buf |-> vec(0), buf_ptr |-> 0, buf_ptr_end |-> 0, error |-> None]
          ELSE IF r.n = 0
          THEN [ok |-> FALSE, err |-> ZeroSizeFile, base |-> r.base,
                buf |-> vec(0), buf_ptr |-> 0, buf_ptr_end |-> 0, error |-> None]
          ELSE [ok |-> TRUE, err |-> ZeroSizeFile, base |-> r.base,
                buf |-> r.buf, buf_ptr |-> 0, buf_ptr_end |-> r.n, error |-> None] :
          r \in {read(base, vec(size))} })

\* (r is the outcome of the first read, into the fresh buffer)
with_capacity(base, size) ==
    The({ IF ~r.ok
          THEN [ok |-> FALSE, err |-> r.err, base |-> r.base,
                buf |-> vec(0), buf_ptr |-> 0, buf_ptr_end |-> 0, error |-> None]
          ELSE IF r.n = 0
          THEN [ok |-> FALSE, err |-> ZeroSizeFile, base |-> r.base,
                buf |-> vec(0), buf_ptr |-> 0, buf_ptr_end |-> 0, error |-> None]
          ELSE [ok |-> TRUE, err |-> ZeroSizeFile, base |-> r.base,
                buf |-> r.buf, buf_ptr |-> 0, buf_ptr_end |-> r.n - 1, error |-> None] :
          r \in {read(base, vec(size))} })

new(base) == with_capacity(base, DefaultSize)

\* refill_buffer with buf_ptr_end one past the last byte read (start + buf_len).
refill_buffer_end_past(s) ==
    The({ IF r.ok /\ r.n = 0
          THEN [self |-> [s EXCEPT !.base = r.base, !.buf = r.buf], ret |-> FALSE]
          ELSE IF r.ok
          THEN [self |-> [s EXCEPT !.base = r.base, !.buf = r.buf,
                                   !.buf_ptr = 0, !.buf_ptr_end = r.n],
                ret |-> TRUE]
          ELSE [self |-> [s EXCEPT !.base = r.base, !.buf = r.buf, !.error = Some(r.err)],
                ret |-> FALSE] :
          r \in {read(s.base, s.buf)} })

\* refill_buffer that clears the field error when a read delivers bytes.
refill_buffer_clears(s) ==
    The({ IF r.ok /\ r.n = 0
          THEN [self |-> [s EXCEPT !.base = r.base, !.buf = r.buf], ret |-> FALSE]
          ELSE IF r.ok
          THEN [self |-> [s EXCEPT !.base = r.base, !.buf = r.buf, !.error = None,
                                   !.buf_ptr = 0, !.buf_ptr_end = r.n - 1],
                ret |-> TRUE]
          ELSE [self |-> [s EXCEPT !.base = r.base, !.buf = r.buf, !.error = Some(r.err)],
                ret |-> FALSE] :
          r \in {read(s.base, s.buf)} })

\* refill_buffer that sets cursor and boundary from a read of 0 bytes too
\* (cursor 0, valid length 0).
refill_buffer_resets(s) ==
    The({ IF r.ok /\ r.n = 0
          THEN [self |-> [s EXCEPT !.base = r.base, !.buf = r.buf,
                                   !.buf_ptr = 0, !.buf_ptr_end = 0 - 1],
                ret |-> FALSE]
          ELSE IF r.ok
          THEN [self |-> [s EXCEPT !.base = r.base, !.buf = r.buf,
                                   !.buf_ptr = 0, !.buf_ptr_end = r.n - 1],
                ret |-> TRUE]
          ELSE [self |-> [s EXCEPT !.base = r.base, !.buf = r.buf, !.error = Some(r.err)],
                ret |-> FALSE] :
          r \in {read(s.base, s.buf)} })

\* refill_buffer that rewinds and answers true after a failed read as well.
refill_buffer_err_true(s) ==
    The({ IF r.ok /\ r.n = 0
          THEN [self |-> [s EXCEPT !.base = r.base, !.buf = r.buf], ret |-> FALSE]
          ELSE IF r.ok
          THEN [self |-> [s EXCEPT !.base = r.base, !.buf = r.buf,
                                   !.buf_ptr = 0, !.buf_ptr_end = r.n - 1],
                ret |-> TRUE]
          ELSE [self |-> [s EXCEPT !.base = r.base, !.buf = r.buf, !.buf_ptr = 0,
                                   !.error = Some(r.err)],
                ret |-> TRUE] :
          r \in {read(s.base, s.buf)} })

\* refill_buffer(&mut self) -> bool
refill_buffer(s) ==
    The({ IF r.ok /\ r.n = 0
          THEN [self |-> [s EXCEPT !.base = r.base, !.buf = r.buf], ret |-> FALSE]
          ELSE IF r.ok
          THEN [self |-> [s EXCEPT !.base = r.base, !.buf = r.buf,
                                   !.buf_ptr = 0, !.buf_ptr_end = r.n - 1],
                ret |-> TRUE]
          ELSE [self |-> [s EXCEPT !.base = r.base, !.buf = r.buf, !.error = Some(r.err)],
                ret |-> FALSE] :
          r \in {read(s.base, s.buf)} })

\* get_err(&self) -> &Option<Error>
get_err(s) == s.error

\* Iterator::next(&mut self) -> Option<u8>
\* next that refills once buf_ptr has reached buf_ptr_end (>= for >).
next_refills_early(s) ==
    The({ IF ~f.ret
          THEN [self |-> f.self, ret |-> None]
          ELSE [self |-> [f.self EXCEPT !.buf_ptr = @ + 1],
                ret |-> Some(at(f.self.buf, f.self.buf_ptr))] :
          f \in {IF s.buf_ptr >= s.buf_ptr_end
                 THEN refill_buffer(s)
                 ELSE [self |-> s, ret |-> TRUE]} })

\* next that calls refill_buffer and does not look at its answer.
next_ignores_refill(s) ==
    The({ [self |-> [f.self EXCEPT !.buf_ptr = @ + 1],
           ret |-> Some(at(f.self.buf, f.self.buf_ptr))] :
          f \in {IF s.buf_ptr > s.buf_ptr_end
                 THEN refill_buffer(s)
                 ELSE [self |-> s, ret |-> TRUE]} })

\* (f.ret is FALSE when the refill was tried and failed, f.self is self after it)
next(s) ==
    The({ IF ~f.ret
          THEN [self |-> f.self, ret |-> None]
          ELSE [self |-> [f.self EXCEPT !.buf_ptr = @ + 1],
                ret |-> Some(at(f.self.buf, f.self.buf_ptr))] :
          f \in {IF s.buf_ptr > s.buf_ptr_end
                 THEN refill_buffer(s)
                 ELSE [self |-> s, ret |-> TRUE]} })

\* ---------------------------------------------------------------- driving the iterator
\* One call of next through the Iterator trait, with what a caller observes of it:
\* out, the items yielded so far; item, what this call returned; term, why next
\* returned None the first time ("no" while it never has); exhausted, whether a
\* refill has reported 0 bytes.
LastRead(b) == b.log[Len(b.log)]       \* what the latest read of b answered

Iter(g) ==
    The({ IF r.ret = None
          THEN [self |-> r.self, out |-> g.out, item |-> None,
                term |-> IF g.term # "no" THEN g.term
                         ELSE IF LastRead(r.self.base) = ERR THEN "err" ELSE "eof",
                exhausted |-> g.exhausted \/ LastRead(r.self.base) = 0]
          ELSE [self |-> r.self, out |-> g.out \o r.ret, item |-> r.ret,
                term |-> g.term, exhausted |-> g.exhausted] :
          r \in {next(g.self)} })

\* The closures handed to try_block.  count: |b| b.count(), which calls next until
\* it returns None and answers the number of items.  calls k: a loop of exactly k
\* next calls that answers the number of items among them.  (r \in {Iter(g)} names
\* the iterator after one call of next, evaluated once.)
\*
\* count has no bound of its own: it ends when next returns None.  Here it is cut
\* off once the source has answered CountCap reads, more than a count started below
\* MaxReads reads can need before a read delivers nothing; C15 checks that no count
\* ends by being cut off.
CountCap == MaxReads + MaxData + 1

RECURSIVE count(_, _)
count(g, t) ==
    IF Len(g.self.base.log) >= CountCap THEN [it |-> g, t |-> t]
    ELSE The({ IF r.item = None THEN [it |-> r, t |-> t] ELSE count(r, t + 1) :
               r \in {Iter(g)} })

RECURSIVE calls(_, _, _)
calls(g, k, t) ==
    IF k = 0 THEN [it |-> g, t |-> t]
    ELSE The({ calls(r, k - 1, IF r.item = None THEN t ELSE t + 1) :
               r \in {Iter(g)} })

Closures == { [kind |-> "count", k |-> 0] } \cup { [kind |-> "calls", k |-> k] : k \in 0..MaxCalls }

apply(f, g) == IF f.kind = "count" THEN count(g, 0) ELSE calls(g, f.k, 0)

\* try_block that answers Ok(t) without looking at the field error.
try_block_unchecked(g, f) ==
    The({ [it |-> c.it, t |-> c.t, ok |-> TRUE, val |-> Some(c.t), err |-> None] :
          c \in {apply(f, g)} })

\* try_block that takes the error out of the field when it reports it.
try_block_takes(g, f) ==
    The({ IF get_err(c.it.self) # None
          THEN [it |-> [c.it EXCEPT !.self.error = None], t |-> c.t, ok |-> FALSE,
                val |-> None, err |-> get_err(c.it.self)]
          ELSE [it |-> c.it, t |-> c.t, ok |-> TRUE, val |-> Some(c.t), err |-> None] :
          c \in {apply(f, g)} })

\* try_block(&mut self, f) -> Result<T, &Error>; t is the closure's own value.
try_block(g, f) ==
    The({ IF get_err(c.it.self) # None
          THEN [it |-> c.it, t |-> c.t, ok |-> FALSE, val |-> None,
                err |-> get_err(c.it.self)]
          ELSE [it |-> c.it, t |-> c.t, ok |-> TRUE, val |-> Some(c.t), err |-> None] :
          c \in {apply(f, g)} })

\* ---------------------------------------------------------------- state
VARIABLES
    base,         \* the source, before construction and as the field base
    buf,          \* field buf
    buf_ptr,      \* field buf_ptr, as an offset into buf
    buf_ptr_end,  \* field buf_ptr_end, as an offset into buf
    error,        \* field error
    created,      \* "Pending" before the constructor ran, then "Ok" or "Err"
    size,         \* the size the constructor was called with (-1 before)
    ctor_err,     \* the error the constructor returned, if it did
    out,          \* the items next has yielded, in order
    item,         \* what the last next call returned
    term,         \* why next first returned None: "no", "eof" or "err"
    exhausted,    \* a refill has reported 0 bytes
    tb,           \* what the last operation, if a try_block, returned
    got,          \* what the last operation, if a get_err, returned
    op            \* the last operation

vars == << base, buf, buf_ptr, buf_ptr_end, error, created, size, ctor_err,
           out, item, term, exhausted, tb, got, op >>

Self == [base |-> base, buf |-> buf, buf_ptr |-> buf_ptr,
         buf_ptr_end |-> buf_ptr_end, error |-> error]

Observed == [self |-> Self, out |-> out, item |-> item, term |-> term,
             exhausted |-> exhausted]

NoTb == [f |-> [kind |-> "none", k |-> 0], from |-> 0, fresh |-> FALSE,
         t |-> 0, ok |-> TRUE, val |-> None, err |-> None]

Plans == SeqsUpTo({ERR} \cup 0..MaxCap, MaxPlan)

\* The source's bytes are 1, 2, ..., n: all different, and different from the zeros
\* of a fresh buffer, so that a byte dropped, repeated, moved or read from a place
\* no read filled shows in what is yielded.  (BufBytes never looks at a byte's value.)
Datas == { [i \in 1..n |-> i] : n \in 0..MaxData }

Sources == { [data |-> d, pos |-> 0, plan |-> p, log |-> << >>] :
             d \in Datas, p \in Plans }

Init ==
    /\ base \in Sources
    /\ buf = vec(0)
    /\ buf_ptr = 0
    /\ buf_ptr_end = 0
    /\ error = None
    /\ created = "Pending"
    /\ size = 0 - 1
    /\ ctor_err = None
    /\ out = << >>
    /\ item = None
    /\ term = "no"
    /\ exhausted = FALSE
    /\ tb = NoTb
    /\ got = None
    /\ op = "init"

Construct(r, name) ==
    /\ base' = r.base
    /\ buf' = r.buf
    /\ buf_ptr' = r.buf_ptr
    /\ buf_ptr_end' = r.buf_ptr_end
    /\ error' = r.error
    /\ created' = IF r.ok THEN "Ok" ELSE "Err"
    /\ ctor_err' = IF r.ok THEN None ELSE Some(r.err)
    /\ op' = name
    /\ UNCHANGED << out, item, term, exhausted, tb, got >>

WithCapacity ==
    /\ created = "Pending"
    /\ \E n \in 0..MaxCap :
          /\ \E r \in {with_capacity(base, n)} : Construct(r, "with_capacity")
          /\ size' = n

New ==
    /\ created = "Pending"
    /\ \E r \in {new(base)} : Construct(r, "new")
    /\ size' = DefaultSize

Install(g) ==
    /\ base' = g.self.base
    /\ buf' = g.self.buf
    /\ buf_ptr' = g.self.buf_ptr
    /\ buf_ptr_end' = g.self.buf_ptr_end
    /\ error' = g.self.error
    /\ out' = g.out
    /\ item' = g.item
    /\ term' = g.term
    /\ exhausted' = g.exhausted

Next_ ==
    /\ created = "Ok"
    /\ Len(base.log) < MaxReads
    /\ \E g \in {Iter(Observed)} : Install(g)
    /\ tb' = NoTb
    /\ got' = None
    /\ op' = "next"
    /\ UNCHANGED << created, size, ctor_err >>

TryBlock ==
    /\ created = "Ok"
    /\ Len(base.log) < MaxReads
    /\ \E f \in Closures :
          \E r \in {try_block(Observed, f)} :
              /\ Install(r.it)
              /\ tb' = [f |-> f, from |-> Len(base.log), fresh |-> (out = << >>),
                        t |-> r.t, ok |-> r.ok, val |-> r.val, err |-> r.err]
    /\ got' = None
    /\ op' = "try_block"
    /\ UNCHANGED << created, size, ctor_err >>

GetErr ==
    /\ created = "Ok"
    /\ got' = get_err(Self)
    /\ tb' = NoTb
    /\ op' = "get_err"
    /\ UNCHANGED << base, buf, buf_ptr, buf_ptr_end, error, created, size, ctor_err,
                    out, item, term, exhausted >>

Next == WithCapacity \/ New \/ Next_ \/ TryBlock \/ GetErr

Spec == Init /\ [][Next]_vars

\* The caller keeps calling next: the premise of a claim about repeated next calls.
SpecLive == Init /\ [][Next]_vars /\ WF_vars(Next_)

TypeOK ==
    /\ created \in {"Pending", "Ok", "Err"}
    /\ buf_ptr \in Nat
    /\ term \in {"no", "eof", "err"}
    /\ exhausted \in BOOLEAN

\* ---------------------------------------------------------------- what the source did
Reads == DOMAIN base.log                     \* the reads answered so far, 1 the constructor's

NoReadFailed == \A i \in Reads : base.log[i] # ERR

\* The source answered 0 bytes only once all its data was delivered, and kept doing so.
EndsOnlyAtEnd ==
    /\ \A i, j \in Reads : (i < j /\ base.log[i] = 0) => base.log[j] = 0
    /\ (\E i \in Reads : base.log[i] = 0) => base.pos = Len(base.data)

Delivered == SubSeq(base.data, 1, base.pos)  \* the bytes the successful reads delivered

\* The first k reads delivered bytes and the latest one, read k + 1, failed (k >= 1).
FailedAfterGoodReads ==
    /\ Len(base.log) >= 2
    /\ base.log[Len(base.log)] = ERR
    /\ \A i \in 1..(Len(base.log) - 1) : base.log[i] >= 1

\* ---------------------------------------------------------------- claims
\* C1: exact replay.  Over a source that never fails and answers 0 bytes only when its
\* data is used up, whatever the capacity and however the reads split the data, once
\* next has returned None the items yielded are exactly the source's bytes, in order.
C1_ExactReplay ==
    (created = "Ok" /\ term # "no" /\ NoReadFailed /\ EndsOnlyAtEnd) => out = base.data

\* C1 happens: a source longer than the buffer, read in at least two chunks of which one
\* is shorter than the buffer, is replayed whole and next has returned None.
C1_Witness ==
    /\ created = "Ok" /\ op = "next" /\ item = None /\ term = "eof"
    /\ NoReadFailed /\ EndsOnlyAtEnd
    /\ Len(base.data) >= 3 /\ buf.len = 2
    /\ \E i \in Reads : base.log[i] = 1
    /\ out = base.data

\* C2: strict empty-source policy.  When the constructor's read succeeds with 0 bytes,
\* new / with_capacity returns the "0 size file" error and no instance exists.
C2_EmptySourceFails ==
    (created # "Pending" /\ base.log[1] = 0) =>
        (created = "Err" /\ ctor_err = Some(ZeroSizeFile))

\* C2 happens: new over a source without data has failed.
C2_Witness ==
    /\ op = "new" /\ base.data = << >> /\ base.log = << 0 >>
    /\ created = "Err" /\ ctor_err = Some(ZeroSizeFile)

\* C3: when the constructor's read fails, the constructor returns exactly that error,
\* no instance exists and the error is not kept in the field error.
C3_FirstReadErrorPropagates ==
    (created # "Pending" /\ base.log[1] = ERR) =>
        (created = "Err" /\ ctor_err = Some(IoError(1)) /\ error = None)

\* C3 happens: with_capacity over a source that holds data and fails its first read.
C3_Witness ==
    /\ op = "with_capacity" /\ base.log = << ERR >> /\ Len(base.data) >= 1
    /\ created = "Err" /\ ctor_err = Some(IoError(1))

\* C4: partial read, then error.  When the first k reads delivered bytes and read
\* k + 1 fails, next returns None and the items yielded are exactly the bytes those k
\* reads delivered, in order.
C4_PartialReadThenError ==
    (created = "Ok" /\ FailedAfterGoodReads) =>
        (item = None /\ out = Delivered /\ term = "err")

\* C4 happens: two reads filled the buffer, the third failed with data still in the
\* source, and the bytes of the two reads were yielded.
C4_Witness ==
    /\ created = "Ok" /\ FailedAfterGoodReads
    /\ Len(base.log) = 3 /\ base.log[1] = buf.len /\ base.log[2] = buf.len
    /\ base.pos < Len(base.data)
    /\ item = None /\ Len(out) = 2 * buf.len

\* The reads answered during the latest try_block, and those of them that failed.
PassReads == (tb.from + 1)..Len(base.log)
FailedIn(S) == { i \in S : base.log[i] = ERR }
Latest(S) == CHOOSE i \in S : \A j \in S : j <= i

\* C5: sticky termination.  Once next has returned None, no later step yields an item
\* and the latest next call has returned None, whatever the source delivers later.
C5_StickyTermination ==
    [][term # "no" => (out' = out /\ item' = None)]_vars

\* C6: no retry after exhaustion.  Once a refill has reported 0 bytes, no later step
\* reads from the source.
C6_NoRetryAfterExhaustion ==
    [][exhausted => base'.log = base.log]_vars

\* C7: checked pass, error.  When a read fails while the closure of try_block drives
\* next, try_block returns Err with the error of that read (the latest one, if several
\* failed) and the closure's value is not returned.
C7_TryBlockSurfacesError ==
    (op = "try_block" /\ FailedIn(PassReads) # {}) =>
        (~tb.ok /\ tb.val = None /\ tb.err = Some(IoError(Latest(FailedIn(PassReads)))))

\* C7 happens: the closure counted two items, then a read failed, and try_block
\* returned that read's error.
C7_Witness ==
    /\ op = "try_block" /\ tb.f.kind = "count" /\ tb.fresh
    /\ FailedIn(PassReads) = {Len(base.log)}
    /\ tb.t = 2 /\ ~tb.ok /\ tb.err = Some(IoError(Len(base.log)))

\* C8: checked pass, success.  try_block with the counting closure on a fresh instance
\* over a source of n bytes that never fails returns Ok(n); and whenever no read has
\* failed, try_block returns Ok with exactly the closure's value.
C8_TryBlockSuccess ==
    /\ (op = "try_block" /\ tb.fresh /\ tb.f.kind = "count"
            /\ NoReadFailed /\ EndsOnlyAtEnd)
        => (tb.ok /\ tb.val = Some(Len(base.data)))
    /\ (op = "try_block" /\ NoReadFailed) => (tb.ok /\ tb.val = Some(tb.t))

\* C8 happens: counting a 4-byte source through a 2-byte buffer returned Ok(4).
C8_Witness ==
    /\ op = "try_block" /\ tb.fresh /\ tb.f.kind = "count"
    /\ NoReadFailed /\ EndsOnlyAtEnd
    /\ Len(base.data) = 4 /\ buf.len = 2 /\ base.log = << 2, 2, 0 >>
    /\ tb.ok /\ tb.val = Some(4)

\* C9 as claimed: try_block returns Err if and only if a read failed during its own
\* closure.
C9_OwnPassOnly ==
    (op = "try_block") => (~tb.ok <=> FailedIn(PassReads) # {})

\* C9 as amended: try_block returns Err if and only if a read has failed at any time
\* since construction, during its closure or before it, and the Err carries the
\* error of the latest failed read.
C9_AnyPassSoFar ==
    (op = "try_block") =>
        /\ ~tb.ok <=> FailedIn(Reads) # {}
        /\ ~tb.ok => tb.err = Some(IoError(Latest(FailedIn(Reads))))

\* C9 happens: a read failed before the pass; during the pass a read delivered a
\* byte, the closure counted it and no read failed; try_block returned the old error.
C9_Witness ==
    /\ op = "try_block" /\ FailedIn(PassReads) = {}
    /\ FailedIn(Reads) # {} /\ PassReads # {} /\ tb.t >= 1
    /\ ~tb.ok /\ tb.err = Some(IoError(Latest(FailedIn(Reads))))

\* C10: the field error tells the terminal states apart.  Once next has returned None,
\* get_err is Some if and only if that first None came from a failed read, and None
\* if it came from a read of 0 bytes; while no read has failed, get_err is None.
C10_ErrorTellsTerminalStates ==
    created = "Ok" =>
        /\ term = "err" => get_err(Self) # None
        /\ term = "eof" => get_err(Self) = None
        /\ NoReadFailed => get_err(Self) = None

\* The error of the latest failed read, if a read has failed.
LatestError ==
    IF FailedIn(Reads) = {} THEN None ELSE Some(IoError(Latest(FailedIn(Reads))))

\* C11: the field error is sticky.  It always holds the error of the most recent
\* failed refill (None while none has failed), get_err returns it, and a step that
\* reads nothing from the source (get_err, a try_block whose closure attempts no
\* refill, a next that attempts none) leaves it as it is.
C11_StickyError ==
    /\ [](created = "Ok" => (error = LatestError /\ (op = "get_err" => got = error)))
    /\ [][base'.log = base.log => error' = error]_vars

\* C11 happens: a refill failed, a later one delivered two bytes, and the next call
\* that yielded the second of them, without a refill, left the error of the failed
\* refill in place.
C11_Witness ==
    /\ created = "Ok" /\ op = "next" /\ item # None
    /\ buf_ptr = 2 /\ LastRead(base) = 2
    /\ FailedIn(Reads) # {} /\ error = LatestError /\ error # None

\* ---------------------------------------------------------------- cursor and boundary
\* The spec's index view of the two pointers.
cursor == buf_ptr                    \* buf_ptr - buffer start
valid_length == buf_ptr_end + 1      \* (buf_ptr_end - buffer start) + 1
capacity == buf.len

\* The length the most recent read that did not fail reported.
LastOkLen == base.log[Latest({ i \in Reads : base.log[i] # ERR })]

\* C12: cursor bounds.  In every state of an instance,
\* 0 <= cursor <= valid_length <= capacity and 1 <= valid_length.
C12_CursorBounds ==
    created = "Ok" =>
        (0 <= cursor /\ cursor <= valid_length /\ valid_length <= capacity
            /\ 1 <= valid_length)

\* C12 happens: a refill shorter than the buffer was consumed up to its boundary:
\* cursor = valid_length < capacity.
C12_Witness ==
    /\ created = "Ok" /\ op = "next" /\ Len(base.log) >= 2
    /\ cursor = valid_length /\ valid_length < capacity

\* C13: no stale byte.  When the latest next call yielded a byte, it read it at an
\* index below the length of the most recent successful read, and the byte is the
\* one that read put at that index.
C13_NoStaleByte ==
    (created = "Ok" /\ item # None) =>
        /\ 0 <= cursor - 1 /\ cursor - 1 < LastOkLen
        /\ item = Some(base.data[base.pos - LastOkLen + cursor])

\* C13 happens: after a failed refill, a refill of one byte into a buffer that still
\* holds two older bytes; next yielded the new byte at index 0.
C13_Witness ==
    /\ created = "Ok" /\ op = "next" /\ item = Some(base.data[base.pos])
    /\ FailedIn(Reads) # {} /\ LastRead(base) = 1 /\ Len(buf.head) = 2
    /\ cursor = 1

\* C14: refill trigger.  A next call reads from the source if and only if cursor equals
\* valid_length when it starts, and then reads once; while unread bytes remain it
\* leaves the source as it is.
C14_RefillTrigger ==
    [][op' = "next" =>
          /\ (base' # base) <=> (cursor = valid_length)
          /\ Len(base'.log) <= Len(base.log) + 1]_vars

\* C14 happens: next yielded the byte at the final valid index of a full buffer
\* (which a call that refills never does: it yields index 0).
C14_Witness ==
    /\ created = "Ok" /\ op = "next" /\ item # None
    /\ capacity = 2 /\ valid_length = capacity /\ cursor = valid_length

\* The latest next call returned None (item is None before the first call as well).
ReturnedNone == term # "no" /\ item = None

\* C16: a failed refill leaves cursor and boundary alone.  A next call that returns
\* None has read once and left buf_ptr and buf_ptr_end as they were, with cursor =
\* valid_length; and the next call of next after it reads from the source again.
C16_FailedRefillKeepsPointers ==
    [][op' = "next" =>
          /\ item' = None =>
                (/\ buf_ptr' = buf_ptr /\ buf_ptr_end' = buf_ptr_end
                 /\ cursor = valid_length
                 /\ Len(base'.log) = Len(base.log) + 1)
          /\ ReturnedNone => Len(base'.log) = Len(base.log) + 1]_vars

\* C16 happens: a refill reported 0 bytes, the call after it read again and got an
\* error, and cursor and boundary are where the last delivering read left them.
C16_Witness ==
    /\ created = "Ok" /\ op = "next" /\ ReturnedNone
    /\ Len(base.log) = 3 /\ base.log[2] = 0 /\ base.log[3] = ERR
    /\ valid_length = base.log[1] /\ cursor = valid_length

\* C17: with_capacity(source, 0) makes no instance.  Whatever the source holds, the
\* read into the empty buffer delivers nothing and the constructor returns the
\* "0 size file" error, or the error of the read if it failed; so every instance has
\* a capacity of at least 1.
C17_NoZeroCapacity ==
    /\ (created # "Pending" /\ size = 0) =>
          /\ created = "Err" /\ base.pos = 0
          /\ ctor_err = IF base.log[1] = ERR THEN Some(IoError(1)) ELSE Some(ZeroSizeFile)
    /\ created = "Ok" => (capacity >= 1 /\ capacity = size)

\* C17 happens: with_capacity(source, 0) over a source that holds data and would
\* deliver it has failed with "0 size file".
C17_Witness ==
    /\ op = "with_capacity" /\ size = 0 /\ created = "Err"
    /\ Len(base.data) >= 2 /\ base.plan = << >> /\ base.log = << 0 >>
    /\ ctor_err = Some(ZeroSizeFile)

\* C15: termination.  Every source of the model holds finitely many bytes and, once
\* they and its plan are used up, answers 0 bytes to every read.  When next keeps
\* being called on an instance over it, a call eventually returns None; and
\* b.count(), which calls next until it returns None, ends by next returning None.
C15_Termination ==
    /\ [](op = "try_block" /\ tb.f.kind = "count" => ReturnedNone)
    /\ (created = "Ok") ~> (term # "no")

\* C15 happens: next returned None for the first time after the source's four bytes
\* were yielded through a buffer of one byte, on the fifth read.
C15_Witness ==
    /\ created = "Ok" /\ op = "next" /\ ReturnedNone
    /\ capacity = 1 /\ Len(base.data) = 4 /\ out = base.data
    /\ base.log = << 1, 1, 1, 1, 0 >>

====
